---- MODULE Spec2Model ----
(***************************************************************************)
(* A model of kamal-proxy's spillover Buffer (internal/server/buffer.go)   *)
(* and of the request buffering middleware that owns one Buffer per        *)
(* request (internal/server/request_buffer_middleware.go).                 *)
(*                                                                         *)
(* The Buffer never looks at the value of a byte, so the k-th byte ever    *)
(* offered to Write is modelled as the number k: every byte is then        *)
(* distinct and a loss, a duplication or a reordering is visible.          *)
(***************************************************************************)
EXTENDS Integers, Sequences, FiniteSets, TLC

\* ---------------------------------------------------------------- bounds
\* Largest maxBytes / maxMemBytes a Buffer is constructed with.
MaxBytesCfg == 3
MaxMemCfg == 2
\* Largest len(p) of one Write and of one Read.
MaxChunk == 2
MaxRead == 2
\* Bytes offered to Write over the life of a Buffer (caps the unbounded
\* growth of an unlimited Buffer).
MaxOffered == 5
\* Length of io.Copy's transfer buffer (32 KiB in Go), scaled to the sizes
\* above.
CopyBufLen == 1
\* The most points one raise adds to the rollout percentage (a larger raise
\* is several raises with no request decided in between).
MaxRaise == 10
\* Goroutines that call Close concurrently (each as often as it likes).
MaxClosers == 2

\* ---------------------------------------------------------------- errors
Nil == "nil"
ErrMaximumSizeExceeded == "maximum size exceeded"
ErrWriteAfterRead == "write after read"
EOF == "EOF"
\* Errors of the operating system and of the request's source stream.
ErrCreateTemp == "create temp failed"
ErrShortWrite == "disk write failed"
ErrClosed == "file already closed"
ErrSource == "source read failed"
ErrSink == "sink write failed"

Min(x, y) == IF x <= y THEN x ELSE y

\* p[lo:hi] of Go, on a 1-based sequence.
Slice(p, lo, hi) == SubSeq(p, lo + 1, hi)

VARIABLES
    b,          \* the Buffer struct
    file,       \* the temporary file of os.CreateTemp, as the OS sees it
    offered,    \* bytes offered to Write so far (names the next byte)
    accepted,   \* the bytes Write calls reported as written, in order
    delivered,  \* the bytes Read and Send calls handed out, in order
    readCalled, \* a Read or a Send has been invoked
    closeCalled,\* a Close has been invoked
    diskWriteFailed, \* some write to the temporary file has returned an error
    sinkFailed, \* the sink of some Send has returned an error
    last,       \* the last call and what it returned
    pc,         \* RequestBufferMiddleware.ServeHTTP: where the request is
    handle,     \* what NewBufferedReadCloser returned ("none": not yet)
    status,     \* the HTTP status the middleware wrote (0: none)
    nextCalls,  \* how often the next handler was invoked
    cpc,        \* each closing goroutine's position inside Close
    rc,         \* the RolloutController ("nil": none constructed)
    answers,    \* for each request seen, what RequestUsesRolloutGroup returned
    joined      \* the requests that controllers with a lower percentage put
                \* in the rollout group before this one replaced them

vars == <<b, file, offered, accepted, delivered, readCalled, closeCalled,
          diskWriteFailed, sinkFailed, last, pc, handle, status, nextCalls,
          cpc, rc, answers, joined>>

\* ------------------------------------------------------------ the Buffer
\* &Buffer{maxBytes: maxBytes, maxMemBytes: maxMemBytes}: every other field
\* has Go's zero value. memOff is bytes.Buffer's read offset; mrIdx counts the
\* readers io.MultiReader has already dropped; closeOnce is sync.Once (done
\* flag and the holder of its mutex, 0: unlocked).
NewBufferedWriteCloser(maxBytes, maxMemBytes) ==
    [ maxBytes         |-> maxBytes,
      maxMemBytes      |-> maxMemBytes,
      memoryBuffer     |-> << >>,
      memOff           |-> 0,
      memBytesWritten  |-> 0,
      diskBuffer       |-> Nil,
      diskBytesWritten |-> 0,
      overflowed       |-> FALSE,
      reader           |-> Nil,
      mrIdx            |-> 0,
      closeOnce        |-> [done |-> FALSE, m |-> 0] ]

\* No temporary file has been created yet.
NoFile ==
    [ created |-> 0, exists |-> FALSE, open |-> FALSE,
      content |-> << >>, off |-> 0, removes |-> 0 ]

\* What a method leaves behind and returns.
Ret(buf, f, n, err) == [b |-> buf, file |-> f, n |-> n, err |-> err]

\* Faulty variant, to test the properties: the write-after-read guard is missing.
ReadHasBegunNoGuard(buf) == FALSE

\* Buffer.Write, line 96.
ReadHasBegun(buf) == buf.reader # Nil

\* Faulty variant, to test the properties: the ceiling is compared with this write alone, not with the total.
CeilingExceededThisWrite(buf, length) ==
    buf.maxBytes > 0 /\ length > buf.maxBytes

\* Buffer.Write, lines 100-103.
CeilingExceeded(buf, length) ==
    LET totalWritten == buf.memBytesWritten + buf.diskBytesWritten
    IN  buf.maxBytes > 0 /\ totalWritten + length > buf.maxBytes

\* Faulty variant, to test the properties: a write that exactly fills the memory region starts the spill.
FitsInMemoryStrict(buf, length) == buf.memBytesWritten + length < buf.maxMemBytes

\* Buffer.Write, line 112.
FitsInMemory(buf, length) == buf.memBytesWritten + length <= buf.maxMemBytes

\* Faulty variant, to test the properties: the spilling write puts all of p in memory.
MemoryPartWhole(buf, p) == p

\* Faulty variant, to test the properties: the spilling write puts all of p on disk.
MemoryPartEmpty(buf, p) == << >>

\* Buffer.Write, line 122: p[:b.maxMemBytes-b.memBytesWritten].
MemoryPart(buf, p) == Slice(p, 0, buf.maxMemBytes - buf.memBytesWritten)

\* bytes.Buffer.Write appends all of p and never returns an error.
writeToMemory(buf, f, p) ==
    LET n == Len(p)
    IN  Ret([buf EXCEPT !.memoryBuffer = @ \o p,
                        !.memBytesWritten = @ + n], f, n, Nil)

\* os.File.Write at the file's offset. dn is the number of bytes the OS takes
\* before it fails (dn >= len(p): the write succeeds); a closed file takes
\* none.
writeToDisk(buf, f, p, dn) ==
    LET n   == IF f.open THEN Min(dn, Len(p)) ELSE 0
        err == IF ~f.open THEN ErrClosed
               ELSE IF n < Len(p) THEN ErrShortWrite ELSE Nil
        new == SubSeq(f.content, 1, f.off) \o SubSeq(p, 1, n)
               \o SubSeq(f.content, f.off + n + 1, Len(f.content))
    IN  Ret([buf EXCEPT !.diskBytesWritten = @ + n],
            [f EXCEPT !.content = new, !.off = @ + n], n, err)

\* os.CreateTemp succeeds (createOK) or fails.
createSpill(buf, f, createOK) ==
    IF ~createOK
    THEN Ret(buf, f, 0, ErrCreateTemp)
    ELSE Ret([buf EXCEPT !.diskBuffer = "file"],
             [f EXCEPT !.created = @ + 1, !.exists = TRUE, !.open = TRUE,
                       !.content = << >>, !.off = 0], 0, Nil)

\* Faulty variant, to test the properties: the rejection does not set the overflow flag.
RejectOverflowNoFlag(buf, f) == Ret(buf, f, 0, ErrMaximumSizeExceeded)

\* Buffer.Write, lines 104-105.
RejectOverflow(buf, f) ==
    Ret([buf EXCEPT !.overflowed = TRUE], f, 0, ErrMaximumSizeExceeded)

Write(buf, f, p, createOK, dn) ==
    LET length == Len(p)
    IN  IF ReadHasBegun(buf) THEN Ret(buf, f, 0, ErrWriteAfterRead)
        ELSE IF CeilingExceeded(buf, length)
        THEN RejectOverflow(buf, f)
        ELSE IF buf.diskBuffer # Nil THEN writeToDisk(buf, f, p, dn)
        ELSE IF FitsInMemory(buf, length) THEN writeToMemory(buf, f, p)
        ELSE LET sp == createSpill(buf, f, createOK)
             IN  IF sp.err # Nil THEN Ret(buf, f, 0, sp.err)
                 ELSE LET m == writeToMemory(sp.b, sp.file, MemoryPart(buf, p))
                          d == writeToDisk(m.b, m.file, Slice(p, m.n, Len(p)), dn)
                      IN  Ret(d.b, d.file, m.n + d.n, d.err)

\* Faulty variant, to test the properties: the file is not rewound before it is read.
setReaderNoSeek(buf, f) ==
    IF buf.reader # Nil THEN Ret(buf, f, 0, Nil)
    ELSE IF buf.diskBuffer # Nil
    THEN Ret([buf EXCEPT !.reader = "MultiReader"], f, 0, Nil)
    ELSE Ret([buf EXCEPT !.reader = "memoryBuffer"], f, 0, Nil)

\* b.diskBuffer.Seek(0, 0) rewinds the file; a closed file stays as it is.
setReader(buf, f) ==
    IF buf.reader # Nil THEN Ret(buf, f, 0, Nil)
    ELSE IF buf.diskBuffer # Nil
    THEN Ret([buf EXCEPT !.reader = "MultiReader"],
             IF f.open THEN [f EXCEPT !.off = 0] ELSE f, 0, Nil)
    ELSE Ret([buf EXCEPT !.reader = "memoryBuffer"], f, 0, Nil)

\* bytes.Buffer.Reset: the buffer is emptied.
Reset(buf) == [buf EXCEPT !.memoryBuffer = << >>, !.memOff = 0]

\* bytes.Buffer.Read into a slice of length k; data carries the bytes read.
\* A Read of an exhausted buffer resets it before it returns.
memRead(buf, f, k) ==
    LET rest == Len(buf.memoryBuffer) - buf.memOff
        n    == Min(k, rest)
    IN  IF rest = 0
        THEN Ret(Reset(buf), f, 0, IF k = 0 THEN Nil ELSE EOF)
             @@ [data |-> << >>]
        ELSE Ret([buf EXCEPT !.memOff = @ + n], f, n, Nil)
             @@ [data |-> Slice(buf.memoryBuffer, buf.memOff, buf.memOff + n)]

\* os.File.Read into a slice of length k.
fileRead(buf, f, k) ==
    LET rest == Len(f.content) - f.off
        n    == Min(k, rest)
    IN  IF ~f.open THEN Ret(buf, f, 0, ErrClosed) @@ [data |-> << >>]
        ELSE IF k = 0 THEN Ret(buf, f, 0, Nil) @@ [data |-> << >>]
        ELSE IF rest = 0 THEN Ret(buf, f, 0, EOF) @@ [data |-> << >>]
        ELSE Ret(buf, [f EXCEPT !.off = @ + n], n, Nil)
             @@ [data |-> Slice(f.content, f.off, f.off + n)]

\* io.MultiReader(&b.memoryBuffer, b.diskBuffer).Read: a reader that returns
\* EOF is dropped and the next one is tried in the same call.
multiRead(buf, f, k) ==
    LET m  == memRead(buf, f, k)
        b1 == IF buf.mrIdx = 0 THEN [m.b EXCEPT !.mrIdx = 1] ELSE buf
        d  == fileRead(b1, f, k)
        b2 == [b1 EXCEPT !.mrIdx = 2]
    IN  IF buf.mrIdx = 0 /\ m.err # EOF THEN m
        ELSE IF buf.mrIdx <= 1
        THEN IF d.err # EOF THEN d
             ELSE Ret(b2, f, 0, EOF) @@ [data |-> << >>]
        ELSE Ret(buf, f, 0, EOF) @@ [data |-> << >>]

\* Buffer.Read with len(p) = k.
Read(buf, f, k) ==
    LET s == setReader(buf, f)
    IN  IF s.b.reader = "MultiReader" THEN multiRead(s.b, s.file, k)
        ELSE memRead(s.b, s.file, k)

\* bytes.Buffer.WriteTo(w): all that is left of the memory region goes to w
\* in one Write; w takes the first `take` bytes of it. Only what w took is
\* consumed, and the buffer is reset once it is empty.
memWriteTo(buf, f, take) ==
    LET mem == Slice(buf.memoryBuffer, buf.memOff, Len(buf.memoryBuffer))
    IN  IF take < Len(mem)
        THEN Ret([buf EXCEPT !.memOff = @ + take], f, take, ErrSink)
             @@ [data |-> SubSeq(mem, 1, take)]
        ELSE Ret(Reset(buf), f, Len(mem), Nil) @@ [data |-> mem]

\* os.File.WriteTo(w) by io.Copy's loop: the file is read CopyBufLen bytes at
\* a time and each piece is written to w, which takes `take` bytes in all.
\* The piece on which w fails has been read: the file's offset is past it.
fileWriteTo(buf, f, take) ==
    LET disk   == Slice(f.content, f.off, Len(f.content))
        pieces == (take \div CopyBufLen) + 1
    IN  IF ~f.open THEN Ret(buf, f, 0, ErrClosed) @@ [data |-> << >>]
        ELSE IF take < Len(disk)
        THEN Ret(buf, [f EXCEPT !.off = @ + Min(Len(disk), pieces * CopyBufLen)],
                 take, ErrSink) @@ [data |-> SubSeq(disk, 1, take)]
        ELSE Ret(buf, [f EXCEPT !.off = Len(f.content)], Len(disk), Nil)
             @@ [data |-> disk]

\* Faulty variant, to test the properties: every Send composes the reader
\* again, so the file is rewound.
SendRewinding(buf, f, take) ==
    LET s    == setReader([buf EXCEPT !.reader = Nil, !.mrIdx = 0], f)
        mem  == Slice(s.b.memoryBuffer, s.b.memOff, Len(s.b.memoryBuffer))
        disk == Slice(s.file.content, s.file.off, Len(s.file.content))
    IN  Ret([Reset(s.b) EXCEPT !.mrIdx = 2],
            [s.file EXCEPT !.off = Len(s.file.content)],
            Len(mem) + Len(disk), Nil) @@ [data |-> mem \o disk]

\* Buffer.Send: io.Copy(w, b.reader), where w takes `take` bytes before its
\* Write fails (take at least what is left: w does not fail). io.MultiReader
\* copies its readers in turn and keeps the one on which the copy failed.
Send(buf, f, take) ==
    LET s  == setReader(buf, f)
        m  == memWriteTo(s.b, s.file, take)
        b1 == IF s.b.mrIdx = 0 THEN [m.b EXCEPT !.mrIdx = 1] ELSE s.b
        t1 == IF s.b.mrIdx = 0 THEN take - m.n ELSE take
        d  == fileWriteTo(b1, s.file, t1)
        n0 == IF s.b.mrIdx = 0 THEN m.n ELSE 0
        d0 == IF s.b.mrIdx = 0 THEN m.data ELSE << >>
    IN  IF s.b.reader = "memoryBuffer" THEN m
        ELSE IF s.b.mrIdx = 0 /\ m.err # Nil THEN m
        ELSE IF s.b.mrIdx <= 1
        THEN Ret(IF d.err = Nil THEN [d.b EXCEPT !.mrIdx = 2] ELSE d.b,
                 d.file, n0 + d.n, d.err) @@ [data |-> d0 \o d.data]
        ELSE Ret(s.b, s.file, 0, Nil) @@ [data |-> << >>]

\* b.diskBuffer.Close() and os.Remove(b.diskBuffer.Name()): a failure of
\* either is logged and ignored.
discardSpill(buf, f) ==
    IF buf.diskBuffer # Nil
    THEN Ret(buf, [f EXCEPT !.open = FALSE, !.exists = FALSE,
                            !.removes = @ + 1], 0, Nil)
    ELSE Ret(buf, f, 0, Nil)

\* Faulty variant, to test the properties: Close does not remember that it has run.
OnceDoneNever(buf) == FALSE

\* sync.Once's done flag, as b.closeOnce.Do reads it.
OnceDone(buf) == buf.closeOnce.done

\* b.closeOnce.Do(func() { b.discardSpill() }) by a single caller.
Close(buf, f) ==
    IF OnceDone(buf) THEN Ret(buf, f, 0, Nil)
    ELSE LET d == discardSpill(buf, f)
         IN  Ret([d.b EXCEPT !.closeOnce.done = TRUE], d.file, 0, Nil)

\* ------------------------------------------------ the RolloutController
\* Strings are the sequences of their bytes. The identifiers a kamal-rollout
\* cookie carries here: "b0ccrhg", whose FNV-1a hash is 0; "u1", whose hash
\* 0x0442A7F3 lies 1.66% into the hash range; "a", whose hash 0xE40C292C lies
\* 89.08% into it.
ZeroHashId == <<98, 48, 99, 99, 114, 104, 103>>
LowHashId == <<117, 49>>
HighHashId == <<97>>
Identifiers == {ZeroHashId, LowHashId, HighHashId}

\* The empty string.
EmptyString == << >>

\* What a request holds under RolloutCookieName: no such cookie, or a cookie
\* with a value (which may be empty).
NoCookieRequest == [present |-> FALSE, value |-> EmptyString]
Requests ==
    {NoCookieRequest} \cup
    {[present |-> TRUE, value |-> v] : v \in Identifiers \cup {EmptyString}}

\* The configurations of a controller: a percentage, and an allowlist of
\* strings (order and repetition do not matter to slices.Contains).
Percentages == 0..100
Allowlists == SUBSET (Identifiers \cup {EmptyString})

\* A uint32 is the pair <<high 16 bits, low 16 bits>>.
LessEq32(x, y) == x[1] < y[1] \/ (x[1] = y[1] /\ x[2] <= y[2])

\* x XOR y, bit by bit.
RECURSIVE BitXor(_, _)
BitXor(x, y) ==
    IF x = 0 THEN y
    ELSE IF y = 0 THEN x
    ELSE ((x + y) % 2) + 2 * BitXor(x \div 2, y \div 2)

\* One byte of FNV-1a: hash ^= c; hash *= 16777619 (that is 2^24 + 403),
\* modulo 2^32.
FnvStep(h, c) ==
    LET lo == BitXor(h[2], c)
        m  == lo * 403
    IN  <<((h[1] * 403) + (m \div 65536) + ((lo % 256) * 256)) % 65536,
          m % 65536>>

RECURSIVE FnvFold(_, _)
FnvFold(h, value) ==
    IF value = << >> THEN h ELSE FnvFold(FnvStep(h, Head(value)), Tail(value))

\* fnv.New32a() over the bytes of value: FNV-1a from the offset basis
\* 2166136261 = 0x811C9DC5.
hashForValue(value) == FnvFold(<<33052, 40389>>, value)

\* Faulty variant, to test the properties: the largest hash taken as a signed
\* 32-bit number, 0x7FFFFFFF.
maxHashValueSigned == <<32767, 65535>>

\* float64(uint32(0xFFFFFFFF)).
maxHashValue == <<65535, 65535>>

\* maxHashValue * (float64(percentage) / 100.0), rounded down to a whole
\* number: float64(hash) <= x is hash <= floor(x) for a whole hash, and for
\* every percentage in 0..100 the float64 product rounds down to
\* floor(maxHashValue * percentage / 100), which is computed here in base
\* 65536.
percentageSplitPoint(percentage) ==
    LET d0 == (maxHashValue[2] * percentage) % 65536
        c0 == (maxHashValue[2] * percentage) \div 65536
        d1 == ((maxHashValue[1] * percentage) + c0) % 65536
        d2 == ((maxHashValue[1] * percentage) + c0) \div 65536
        q1 == ((d2 * 65536) + d1) \div 100
        r1 == ((d2 * 65536) + d1) % 100
        q0 == ((r1 * 65536) + d0) \div 100
    IN  <<q1, q0>>

NewRolloutController(percentage, allowlist) ==
    [Percentage           |-> percentage,
     PercentageSplitPoint |-> percentageSplitPoint(percentage),
     Allowlist            |-> allowlist]

\* r.Cookie(RolloutCookieName): an error (no such cookie) gives "".
splitValue(r) == IF r.present THEN r.value ELSE EmptyString

\* Faulty variant, to test the properties: the allowlist is ignored.
valueInAllowlistNever(c, value) == FALSE

\* slices.Contains(rc.Allowlist, value).
valueInAllowlist(c, value) == value \in c.Allowlist

\* Faulty variant, to test the properties: the comparison is the wrong way
\* round, the hashes from the split point upwards are in.
valueInRolloutPercentageAbove(c, value) ==
    LessEq32(c.PercentageSplitPoint, hashForValue(value))

\* float64(rc.hashForValue(value)) <= rc.PercentageSplitPoint.
valueInRolloutPercentage(c, value) ==
    LessEq32(hashForValue(value), c.PercentageSplitPoint)

\* What a call returns: the controller as the call leaves it, the result,
\* and the check that gave the result.
Decision(c, result, path) == [rc |-> c, result |-> result, path |-> path]

\* Faulty variant, to test the properties: a request without an identifier
\* is decided like any other.
RequestUsesRolloutGroupNoEmptyCheck(c, r) ==
    LET value == splitValue(r)
    IN  IF valueInAllowlist(c, value) THEN Decision(c, TRUE, "allowlist")
        ELSE Decision(c, valueInRolloutPercentage(c, value), "percentage")

\* Faulty variant, to test the properties: the controller remembers the
\* identifiers it has seen by adding them to its allowlist.
RequestUsesRolloutGroupLearning(c, r) ==
    LET value   == splitValue(r)
        learned == [c EXCEPT !.Allowlist = @ \cup {value}]
    IN  IF value = EmptyString THEN Decision(c, FALSE, "no value")
        ELSE IF valueInAllowlist(c, value) THEN Decision(c, TRUE, "allowlist")
        ELSE Decision(learned, valueInRolloutPercentage(c, value), "percentage")

\* RolloutController.RequestUsesRolloutGroup(r).
RequestUsesRolloutGroup(c, r) ==
    LET value == splitValue(r)
    IN  IF value = EmptyString THEN Decision(c, FALSE, "no value")
        ELSE IF valueInAllowlist(c, value) THEN Decision(c, TRUE, "allowlist")
        ELSE Decision(c, valueInRolloutPercentage(c, value), "percentage")

\* No request has been decided.
NoAnswers == [r \in Requests |-> {}]

\* The results RequestUsesRolloutGroup has returned for request r.
Results(r) == {a.result : a \in answers[r]}


\* ------------------------------------------------- one owner, any calls
\* The bytes of the next Write of the given length.
NextBytes(length) == [i \in 1..length |-> offered + i]

Call(op, arg, r) == [op |-> op, arg |-> arg, n |-> r.n, err |-> r.err]

NoCall == [op |-> "none", arg |-> 0, n |-> 0, err |-> Nil]

Configs == (0..MaxBytesCfg) \X (0..MaxMemCfg)

InitBuffer ==
    /\ \E c \in Configs : b = NewBufferedWriteCloser(c[1], c[2])
    /\ file = NoFile
    /\ offered = 0
    /\ accepted = << >>
    /\ delivered = << >>
    /\ readCalled = FALSE
    /\ closeCalled = FALSE
    /\ diskWriteFailed = FALSE
    /\ sinkFailed = FALSE
    /\ last = NoCall

Init ==
    /\ InitBuffer
    /\ pc = "api"
    /\ handle = "none"
    /\ status = 0
    /\ nextCalls = 0
    /\ cpc = [c \in 1..MaxClosers |-> "idle"]
    /\ rc = Nil
    /\ answers = NoAnswers
    /\ joined = {}

\* The effect of one Write call on the whole state.
DoWrite(length, createOK, dn) ==
    LET p == NextBytes(length)
        r == Write(b, file, p, createOK, dn)
    IN  /\ b' = r.b
        /\ file' = r.file
        /\ offered' = offered + length
        /\ accepted' = accepted \o SubSeq(p, 1, r.n)
        /\ diskWriteFailed' = (diskWriteFailed \/ r.err \in {ErrShortWrite, ErrClosed})
        /\ last' = Call("Write", length, r)
        /\ UNCHANGED <<delivered, readCalled, closeCalled, sinkFailed>>

DoRead(k) ==
    LET r == Read(b, file, k)
    IN  /\ b' = r.b
        /\ file' = r.file
        /\ delivered' = delivered \o r.data
        /\ readCalled' = TRUE
        /\ last' = Call("Read", k, r)
        /\ UNCHANGED <<offered, accepted, closeCalled, diskWriteFailed,
                       sinkFailed>>

DoSend(take) ==
    LET r == Send(b, file, take)
    IN  /\ b' = r.b
        /\ file' = r.file
        /\ delivered' = delivered \o r.data
        /\ readCalled' = TRUE
        /\ sinkFailed' = (sinkFailed \/ r.err = ErrSink)
        /\ last' = Call("Send", 0, r)
        /\ UNCHANGED <<offered, accepted, closeCalled, diskWriteFailed>>

DoClose ==
    LET r == Close(b, file)
    IN  /\ b' = r.b
        /\ file' = r.file
        /\ closeCalled' = TRUE
        /\ last' = Call("Close", 0, r)
        /\ UNCHANGED <<offered, accepted, delivered, readCalled, diskWriteFailed,
                       sinkFailed>>

WriteCall ==
    /\ pc = "api"
    /\ \E length \in 0..MaxChunk :
          /\ offered + length <= MaxOffered
          /\ \E createOK \in BOOLEAN, dn \in 0..length :
                DoWrite(length, createOK, dn)
    /\ UNCHANGED <<pc, handle, status, nextCalls, cpc, rc, answers, joined>>

ReadCall ==
    /\ pc = "api"
    /\ \E k \in 0..MaxRead : DoRead(k)
    /\ UNCHANGED <<pc, handle, status, nextCalls, cpc, rc, answers, joined>>

SendCall ==
    /\ pc = "api"
    /\ \E take \in 0..Len(accepted) : DoSend(take)
    /\ UNCHANGED <<pc, handle, status, nextCalls, cpc, rc, answers, joined>>

CloseCall ==
    /\ pc = "api"
    /\ DoClose
    /\ UNCHANGED <<pc, handle, status, nextCalls, cpc, rc, answers, joined>>

Next == WriteCall \/ ReadCall \/ SendCall \/ CloseCall

Spec == Init /\ [][Next]_vars

\* ------------------------------------------- Close from several goroutines
\* The owner writes, then goroutines call Close concurrently. sync.Once.Do:
\* a caller that reads done = 1 returns at once; otherwise it takes the
\* mutex, reads done again, runs f and stores done = 1 (deferred) before it
\* releases the mutex (deferred).
Closers == 1..MaxClosers

CloseInit ==
    /\ InitBuffer
    /\ pc = "api"
    /\ handle = "none"
    /\ status = 0
    /\ nextCalls = 0
    /\ cpc = [c \in Closers |-> "idle"]
    /\ rc = Nil
    /\ answers = NoAnswers
    /\ joined = {}

OwnerUnchanged ==
    UNCHANGED <<offered, accepted, delivered, readCalled, diskWriteFailed,
                sinkFailed, last, handle, status, nextCalls, rc, answers, joined>>

\* Close is called: the fast path of Once.Do.
CloseEnter(c) ==
    /\ cpc[c] = "idle"
    /\ pc' = "closing"
    /\ closeCalled' = TRUE
    /\ cpc' = IF OnceDone(b) THEN cpc ELSE [cpc EXCEPT ![c] = "doSlow"]
    /\ UNCHANGED <<b, file>>
    /\ OwnerUnchanged

\* o.m.Lock()
CloseLock(c) ==
    /\ cpc[c] = "doSlow"
    /\ b.closeOnce.m = 0
    /\ b' = [b EXCEPT !.closeOnce.m = c]
    /\ cpc' = [cpc EXCEPT ![c] = "locked"]
    /\ UNCHANGED <<file, pc, closeCalled>>
    /\ OwnerUnchanged

\* if o.done.Load() == 0 { defer o.done.Store(1); f() }
CloseRun(c) ==
    /\ cpc[c] = "locked"
    /\ IF OnceDone(b)
       THEN /\ cpc' = [cpc EXCEPT ![c] = "unlock"]
            /\ UNCHANGED <<b, file>>
       ELSE LET d == discardSpill(b, file)
            IN  /\ b' = d.b
                /\ file' = d.file
                /\ cpc' = [cpc EXCEPT ![c] = "store"]
    /\ UNCHANGED <<pc, closeCalled>>
    /\ OwnerUnchanged

\* the deferred o.done.Store(1)
CloseStore(c) ==
    /\ cpc[c] = "store"
    /\ b' = [b EXCEPT !.closeOnce.done = TRUE]
    /\ cpc' = [cpc EXCEPT ![c] = "unlock"]
    /\ UNCHANGED <<file, pc, closeCalled>>
    /\ OwnerUnchanged

\* the deferred o.m.Unlock(), and Close returns nil
CloseUnlock(c) ==
    /\ cpc[c] = "unlock"
    /\ b' = [b EXCEPT !.closeOnce.m = 0]
    /\ cpc' = [cpc EXCEPT ![c] = "idle"]
    /\ UNCHANGED <<file, pc, closeCalled>>
    /\ OwnerUnchanged

CloserStep(c) ==
    \/ CloseEnter(c)
    \/ CloseLock(c)
    \/ CloseRun(c)
    \/ CloseStore(c)
    \/ CloseUnlock(c)

CloseNext == WriteCall \/ \E c \in Closers : CloserStep(c)

\* A goroutine that is inside Close runs on, and the mutex of sync.Once is
\* handed to a goroutine that waits for it.
CloseFairness ==
    \A c \in Closers :
        WF_vars(CloseLock(c) \/ CloseRun(c) \/ CloseStore(c) \/ CloseUnlock(c))

CloseSpec == CloseInit /\ [][CloseNext]_vars /\ CloseFairness

\* ------------------------------------------------ the request middleware
\* Faulty variant, to test the properties: the failed buffer is not closed before the error is returned.
NewBufferedReadCloserFailNoClose(buf, f, err) == Ret(buf, f, 0, err)

\* NewBufferedReadCloser, lines 64-77: io.Copy has returned err.
NewBufferedReadCloserFail(buf, f, err) ==
    LET c == Close(buf, f)
    IN  Ret(c.b, c.file, 0, err)

\* Faulty variant, to test the properties: every failure is answered alike.
StatusForAlways500(err) == 500

\* ServeHTTP, lines 30-35.
StatusFor(err) == IF err = ErrMaximumSizeExceeded THEN 413 ELSE 500

PipeInit ==
    /\ InitBuffer
    /\ pc = "copy"
    /\ handle = "none"
    /\ status = 0
    /\ nextCalls = 0
    /\ cpc = [c \in Closers |-> "idle"]
    /\ rc = Nil
    /\ answers = NoAnswers
    /\ joined = {}

\* NewBufferedReadCloser returns (nil, err) and ServeHTTP answers the client.
FactoryFails(buf, f, err) ==
    LET r == NewBufferedReadCloserFail(buf, f, err)
    IN  /\ b' = r.b
        /\ file' = r.file
        /\ handle' = "nil"
        /\ last' = [op |-> "NewBufferedReadCloser", arg |-> 0, n |-> 0,
                    err |-> r.err]
        /\ status' = StatusFor(r.err)
        /\ pc' = "failed"

\* One round of io.Copy: the request body yields length bytes and the Buffer
\* is asked to write them; a failed Write ends the copy.
CopyChunk ==
    /\ pc = "copy"
    /\ \E length \in 1..MaxChunk : \E createOK \in BOOLEAN, dn \in 0..length :
          LET p == NextBytes(length)
              r == Write(b, file, p, createOK, dn)
          IN  /\ offered + length <= MaxOffered
              /\ offered' = offered + length
              /\ accepted' = accepted \o SubSeq(p, 1, r.n)
              /\ diskWriteFailed' =
                    (diskWriteFailed \/ r.err \in {ErrShortWrite, ErrClosed})
              /\ IF r.err = Nil
                 THEN /\ b' = r.b
                      /\ file' = r.file
                      /\ last' = Call("Write", length, r)
                      /\ UNCHANGED <<pc, handle, status>>
                 ELSE FactoryFails(r.b, r.file, r.err)
    /\ UNCHANGED <<delivered, readCalled, closeCalled, sinkFailed, nextCalls,
                   cpc, rc, answers, joined>>

\* The request body fails to read: io.Copy returns the error.
CopySourceError ==
    /\ pc = "copy"
    /\ FactoryFails(b, file, ErrSource)
    /\ UNCHANGED <<offered, accepted, delivered, readCalled, closeCalled,
                   diskWriteFailed, sinkFailed, nextCalls, cpc, rc, answers, joined>>

\* The request body ends: NewBufferedReadCloser returns the Buffer, ServeHTTP
\* makes it r.Body and calls the next handler.
CopyEOF ==
    /\ pc = "copy"
    /\ handle' = "buf"
    /\ last' = [op |-> "NewBufferedReadCloser", arg |-> 0, n |-> 0, err |-> Nil]
    /\ nextCalls' = nextCalls + 1
    /\ pc' = "next"
    /\ UNCHANGED <<b, file, offered, accepted, delivered, readCalled,
                   closeCalled, diskWriteFailed, sinkFailed, status, cpc, rc,
                   answers, joined>>

\* The next handler owns r.Body, an io.ReadCloser: it may read it, hand it to
\* a copy, close it, and return when it likes.
HandlerRead ==
    /\ pc = "next"
    /\ \E k \in 0..MaxRead : DoRead(k)
    /\ UNCHANGED <<pc, handle, status, nextCalls, cpc, rc, answers, joined>>

HandlerSend ==
    /\ pc = "next"
    /\ \E take \in 0..Len(accepted) : DoSend(take)
    /\ UNCHANGED <<pc, handle, status, nextCalls, cpc, rc, answers, joined>>

HandlerClose ==
    /\ pc = "next"
    /\ DoClose
    /\ UNCHANGED <<pc, handle, status, nextCalls, cpc, rc, answers, joined>>

\* h.next.ServeHTTP returns, and with it ServeHTTP.
HandlerReturn ==
    /\ pc = "next"
    /\ pc' = "served"
    /\ UNCHANGED <<b, file, offered, accepted, delivered, readCalled,
                   closeCalled, diskWriteFailed, sinkFailed, last, handle,
                   status, nextCalls, cpc, rc, answers, joined>>

PipeNext ==
    \/ CopyChunk
    \/ CopySourceError
    \/ CopyEOF
    \/ HandlerRead
    \/ HandlerSend
    \/ HandlerClose
    \/ HandlerReturn

PipeSpec == PipeInit /\ [][PipeNext]_vars

\* ------------------------------------ a RolloutController and its requests
\* A controller built by NewRolloutController; no Buffer is involved.
RolloutInit ==
    /\ \E percentage \in Percentages, allowlist \in Allowlists :
          rc = NewRolloutController(percentage, allowlist)
    /\ answers = NoAnswers
    /\ joined = {}
    /\ b = Nil
    /\ file = NoFile
    /\ offered = 0
    /\ accepted = << >>
    /\ delivered = << >>
    /\ readCalled = FALSE
    /\ closeCalled = FALSE
    /\ diskWriteFailed = FALSE
    /\ sinkFailed = FALSE
    /\ last = NoCall
    /\ pc = "rollout"
    /\ handle = "none"
    /\ status = 0
    /\ nextCalls = 0
    /\ cpc = [c \in Closers |-> "idle"]

\* One call of rc.RequestUsesRolloutGroup(r), by any request handler.
DoRequest(r) ==
    LET d == RequestUsesRolloutGroup(rc, r)
    IN  /\ pc = "rollout"
        /\ rc' = d.rc
        /\ answers' = [answers EXCEPT ![r] =
                          @ \cup {[result |-> d.result, path |-> d.path]}]
        /\ UNCHANGED <<b, file, offered, accepted, delivered, readCalled,
                       closeCalled, diskWriteFailed, sinkFailed, last, pc,
                       handle, status, nextCalls, cpc, joined>>

RequestWithCookie ==
    \E v \in Identifiers \cup {EmptyString} :
        DoRequest([present |-> TRUE, value |-> v])

RequestWithoutCookie == DoRequest(NoCookieRequest)

RolloutNext == RequestWithCookie \/ RequestWithoutCookie

RolloutSpec == RolloutInit /\ [][RolloutNext]_vars

\* ------------------------------------------- the rollout percentage raised
\* The rollout is widened: NewRolloutController builds a controller with a
\* higher percentage and the same allowlist, which decides the requests from
\* then on.
RaisePercentage ==
    /\ pc = "rollout"
    /\ \E percentage \in Percentages :
          /\ percentage > rc.Percentage
          /\ percentage <= rc.Percentage + MaxRaise
          /\ rc' = NewRolloutController(percentage, rc.Allowlist)
    /\ joined' = joined \cup {r \in Requests : TRUE \in Results(r)}
    /\ answers' = NoAnswers
    /\ UNCHANGED <<b, file, offered, accepted, delivered, readCalled,
                   closeCalled, diskWriteFailed, sinkFailed, last, pc,
                   handle, status, nextCalls, cpc>>

RaiseNext == RolloutNext \/ RaisePercentage

RaiseSpec == RolloutInit /\ [][RaiseNext]_vars

\* ------------------------------------------------------ Buffer properties
TotalWritten == b.memBytesWritten + b.diskBytesWritten

\* C1 (as stated): once a Write has failed with ErrMaximumSizeExceeded (the
\* overflow flag is set), every later Write of at least one byte fails and
\* accepts no bytes.
C1_StickyOverflow ==
    [][(b.overflowed /\ last'.op = "Write" /\ last'.arg > 0)
          => (last'.err # Nil /\ last'.n = 0 /\ accepted' = accepted)]_vars

\* C2: with maxBytes > 0 the bytes written, by the counters and by what the
\* Write calls reported, never exceed maxBytes.
C2_TotalWithinCeiling ==
    b.maxBytes > 0 =>
        /\ b.memBytesWritten + b.diskBytesWritten <= b.maxBytes
        /\ Len(accepted) <= b.maxBytes

\* A Buffer filled to its ceiling, part of it on disk, that has also turned
\* a write down.
C2_Witness ==
    /\ b.maxBytes > 0
    /\ TotalWritten = b.maxBytes
    /\ b.diskBytesWritten > 0
    /\ b.overflowed

\* A Read has returned EOF, or a Send has returned without an error, and no
\* Send before it has failed on its sink.
FullReadDone ==
    /\ ~sinkFailed
    /\ \/ last.op = "Read" /\ last.err = EOF
       \/ last.op = "Send" /\ last.err = Nil

\* C3: a full read (Read until EOF, or Send to a sink that takes every byte)
\* has delivered exactly the bytes the Writes accepted, in write order.
C3_RoundTrip == FullReadDone => delivered = accepted

\* A full read by Read calls of content that was written in several chunks
\* and went past maxMemBytes onto the disk.
C3_Witness ==
    /\ last.op = "Read" /\ last.err = EOF
    /\ b.memBytesWritten > 0
    /\ b.diskBytesWritten > 1
    /\ Len(accepted) = TotalWritten
    /\ delivered = accepted

\* C4: the memory region never holds more than maxMemBytes bytes.
C4_MemoryWithinLimit ==
    /\ b.memBytesWritten <= b.maxMemBytes
    /\ Len(b.memoryBuffer) <= b.maxMemBytes

\* A write was split: memory is full and the rest went to disk.
C4_Witness ==
    /\ b.maxMemBytes > 0
    /\ b.memBytesWritten = b.maxMemBytes
    /\ b.diskBytesWritten > 0
    /\ last.op = "Write" /\ last.n = MaxChunk /\ last.n > b.diskBytesWritten

C6_WriteAfterRead ==
    [][(readCalled /\ last'.op = "Write")
          => /\ last'.err = ErrWriteAfterRead
             /\ last'.n = 0
             /\ accepted' = accepted
             /\ b'.memoryBuffer = b.memoryBuffer
             /\ b'.memBytesWritten = b.memBytesWritten
             /\ b'.diskBytesWritten = b.diskBytesWritten
             /\ b'.diskBuffer = b.diskBuffer
             /\ b'.overflowed = b.overflowed
             /\ file' = file]_vars

\* A Write of at least one byte that the ceiling would have let through was
\* turned down because a read had begun.
C6_Witness ==
    /\ readCalled
    /\ last.op = "Write" /\ last.arg > 0
    /\ last.err = ErrWriteAfterRead
    /\ ~CeilingExceeded(b, last.arg)

\* C7: a Write that fails with ErrMaximumSizeExceeded returns 0, accepts no
\* byte, creates no store, leaves counters and regions alone and sets the
\* overflow flag.
C7_AllOrNothingRejection ==
    [][(last'.op = "Write" /\ last'.err = ErrMaximumSizeExceeded)
          => /\ last'.n = 0
             /\ accepted' = accepted
             /\ b'.memoryBuffer = b.memoryBuffer
             /\ b'.memBytesWritten = b.memBytesWritten
             /\ b'.diskBytesWritten = b.diskBytesWritten
             /\ b'.diskBuffer = b.diskBuffer
             /\ file' = file
             /\ b'.overflowed]_vars

\* A rejected Write of which a prefix would have fitted under maxBytes.
C7_Witness ==
    /\ last.op = "Write" /\ last.err = ErrMaximumSizeExceeded
    /\ last.arg > 1
    /\ TotalWritten < b.maxBytes
    /\ b.overflowed

\* C8: however many goroutines call Close, and however often, the removal
\* of the secondary store is attempted at most once, and every call returns.
C8_CloseOnce ==
    /\ [](file.removes <= 1)
    /\ \A c \in Closers : (cpc[c] # "idle") ~> (cpc[c] = "idle")

\* One goroutine has removed the store and not yet released the mutex while
\* another, which saw done = 0 on the fast path, waits for the mutex.
C8_Witness ==
    /\ file.removes = 1
    /\ \E c, d \in Closers :
          /\ cpc[c] \in {"store", "unlock"}
          /\ cpc[d] = "doSlow"

\* C9 (as stated, for a request whose body spilled): once the next handler
\* has returned, the request's Buffer has been closed and no secondary store
\* of it remains.
C9_ReleasedAfterHandler ==
    (pc = "served" /\ file.created > 0) => (b.closeOnce.done /\ ~file.exists)

C11_ErrorMapping ==
    /\ pc = "copy" => (nextCalls = 0 /\ status = 0)
    /\ pc = "failed" =>
          /\ nextCalls = 0
          /\ last.err # Nil
          /\ (status = 413) <=> (last.err = ErrMaximumSizeExceeded)
          /\ (status = 500) <=> (last.err # ErrMaximumSizeExceeded)
    /\ pc \in {"next", "served"} =>
          (nextCalls = 1 /\ handle = "buf" /\ status = 0)

\* A body that went over the ceiling after some of it had been buffered was
\* answered with 413 and never reached the next handler.
C11_Witness ==
    /\ pc = "failed"
    /\ status = 413
    /\ Len(accepted) > 0
    /\ nextCalls = 0

C19_ReleaseIsFinal == closeCalled => ~file.exists

\* C20: if the secondary store exists, memBytesWritten equals maxMemBytes,
\* the store holds every accepted byte after the first maxMemBytes, and
\* (until it is read) the memory region holds exactly the first maxMemBytes.
C20_MemoryFilledBeforeSpill ==
    b.diskBuffer # Nil =>
        /\ b.memBytesWritten = b.maxMemBytes
        /\ file.content = SubSeq(accepted, b.maxMemBytes + 1, Len(accepted))
        /\ ~readCalled => b.memoryBuffer = SubSeq(accepted, 1, b.maxMemBytes)

\* A Buffer with room for more than one byte in memory whose content went
\* past it in several writes, not yet read.
C20_Witness ==
    /\ b.diskBuffer # Nil
    /\ b.maxMemBytes > 1
    /\ Len(accepted) > b.maxMemBytes + 1
    /\ b.overflowed = FALSE
    /\ ~readCalled

\* The bytes delivered so far are the first bytes accepted.
DeliveredIsPrefix ==
    /\ Len(delivered) <= Len(accepted)
    /\ delivered = SubSeq(accepted, 1, Len(delivered))

\* The bytes delivered so far are accepted bytes in write order, none twice
\* (the k-th byte offered is the number k).
DeliveredInOrder ==
    /\ \A i \in 1..Len(delivered) : \E j \in 1..Len(accepted) : delivered[i] = accepted[j]
    /\ \A i, j \in 1..Len(delivered) : i < j => delivered[i] < delivered[j]

\* The reader, once composed, stays, and the file is not rewound under it.
ReaderKept ==
    b.reader # Nil => (b'.reader = b.reader /\ file'.off >= file.off)

\* A Read or Send that begins when everything accepted has been delivered.
ReadAfterAll ==
    /\ readCalled
    /\ delivered = accepted
    /\ last'.op \in {"Read", "Send"}

WithIdentifier == {r \in Requests : splitValue(r) # EmptyString}

\* C12 (as stated): with percentage 0, RequestUsesRolloutGroup returns false
\* for every identifier that is not in the allowlist, whatever its hash.
C12_ZeroPercentOnlyAllowlist ==
    rc.Percentage = 0 =>
        \A r \in WithIdentifier :
            splitValue(r) \notin rc.Allowlist => Results(r) \subseteq {FALSE}

\* C13: an identifier in the allowlist makes RequestUsesRolloutGroup return
\* true, whatever the percentage and its hash, and it is the allowlist check
\* that answers, before any hash comparison.
C13_AllowlistAlwaysTrue ==
    \A r \in WithIdentifier :
        splitValue(r) \in rc.Allowlist =>
            answers[r] \subseteq {[result |-> TRUE, path |-> "allowlist"]}

\* Percentage 0, and the identifier with the high hash, which is in the
\* allowlist, has been decided.
C13_Witness ==
    /\ rc.Percentage = 0
    /\ HighHashId \in rc.Allowlist
    /\ answers[[present |-> TRUE, value |-> HighHashId]] # {}
    /\ ~valueInRolloutPercentage(rc, HighHashId)

\* C14: with percentage 100 the split point is the largest 32-bit hash, and
\* RequestUsesRolloutGroup returns true for every identifier.
C14_HundredPercentAlwaysTrue ==
    rc.Percentage = 100 =>
        /\ rc.PercentageSplitPoint = maxHashValue
        /\ \A r \in WithIdentifier : Results(r) \subseteq {TRUE}

\* Percentage 100, an empty allowlist, and every identifier has been decided
\* by its hash.
C14_Witness ==
    /\ rc.Percentage = 100
    /\ rc.Allowlist = {}
    /\ \A r \in WithIdentifier :
          answers[r] = {[result |-> TRUE, path |-> "percentage"]}

\* C15: for a fixed controller and a fixed identifier every call of
\* RequestUsesRolloutGroup returns the same result, whatever was decided in
\* between, and no call changes the controller's Percentage,
\* PercentageSplitPoint or Allowlist.
C15_StatelessDeterminism ==
    /\ [](\A r \in Requests : Cardinality(Results(r)) <= 1)
    /\ [][rc' = rc]_vars

\* Every request has been decided, some in the rollout group and some not.
C15_Witness ==
    /\ \A r \in Requests : answers[r] # {}
    /\ \E r \in WithIdentifier : Results(r) = {TRUE}
    /\ \E r \in WithIdentifier : Results(r) = {FALSE}

\* C16: a request without the kamal-rollout cookie is not in the rollout
\* group, whatever the percentage and the allowlist, and neither the
\* allowlist nor the hash is looked at.
C16_NoCookieIsFalse ==
    \A r \in Requests :
        ~r.present =>
            answers[r] \subseteq {[result |-> FALSE, path |-> "no value"]}

\* Percentage 100, the empty string is in the allowlist, and a request
\* without the cookie has been decided.
C16_Witness ==
    /\ rc.Percentage = 100
    /\ EmptyString \in rc.Allowlist
    /\ answers[NoCookieRequest] # {}

\* C21: for a fixed allowlist and identifier, if RequestUsesRolloutGroup has
\* returned true under a percentage, it returns true under every higher
\* percentage up to 100: raising the percentage moves no client out of the
\* rollout group.
C21_RolloutMonotone ==
    \A r \in joined : Results(r) \subseteq {TRUE}

\* The identifier with the high hash, not in the allowlist, was in the group
\* under one percentage, and is decided by its hash again under a higher
\* percentage below 100.
C21_Witness ==
    /\ HighHashId \notin rc.Allowlist
    /\ rc.Percentage < 100
    /\ [present |-> TRUE, value |-> HighHashId] \in joined
    /\ answers[[present |-> TRUE, value |-> HighHashId]] =
          {[result |-> TRUE, path |-> "percentage"]}

====
